---- MODULE Spec2Model ----
(***************************************************************************)
(* A model of notebooks/utils.py: the percent-replicating and              *)
(* percent-matching utilities for image-based profiling data.              *)
(*                                                                         *)
(* Each function of utils.py that a property is stated about is modelled   *)
(* as its own small state machine over its own variables; a specification  *)
(* per function (SpecFilter, SpecNull, ...) starts that function on every  *)
(* input within the bounds and runs it to its return or to the exception   *)
(* it raises, while the variables of the other functions stay idle.        *)
(***************************************************************************)
EXTENDS Integers, Sequences, FiniteSets, TLC

VARIABLES
    \* remove_negcon_empty_wells
    df,             \* the table passed in: a sequence of rows
    filtered,       \* the table returned
    pc_filter,      \* "call" | "done"
    \* corr_between_non_replicates
    keys,           \* df[metadata_compound_name], one value per row
    n_samples,      \* requested length of the null distribution
    n_replicates,   \* rows per draw
    null_corr,      \* accepted entries, each recorded as the draw it came from
    attempts,       \* draws made so far (random.choices calls)
    rejected,       \* draws that failed the distinct-identity test
    compounds,      \* the row positions of the latest draw
    pc_null,        \* "loop" | "done" | "IndexError" | "ValueError"
    \* null_correlation_between_modalities
    modality_1_df,  \* profiles of the first modality, as passed in
    modality_2_df,  \* profiles of the second modality, as passed in
    modality_1,     \* label of the first modality
    modality_2,     \* label of the second modality
    x_n_samples,    \* n_samples of this function
    count,          \* iterations completed
    perturbations,  \* the latest pair of common-key values drawn
    null_modalities,\* statistics so far, each recorded as the rows it came from
    pc_xnull,       \* "loop" | "done" | "IndexError"
    \* ZCA_corr: one instance
    mean_,          \* Unset, or the length of the stored mean vector
    sphere_,        \* Unset, or the order of the stored whitening matrix
    zca_call,       \* the latest call on the instance and how it ended
    \* sphere_plate_zca_corr
    plate,          \* the table passed in
    combined,       \* the table returned
    pc_sphere,      \* "call" | "done" | the exception raised
    \* percent_score
    null_dist,      \* the null distribution
    corr_dist,      \* the observed distribution
    how,            \* "right" | "left" | "both"
    score,          \* the value returned
    pc_score,       \* "call" | "done"
    \* calculate_percent_replicating_Target, calculate_percent_matching_Target
    fn,             \* which of the two functions runs
    sphere,         \* the sphere parameter
    platelist,      \* number of plates in platelist (_1 and _2)
    calls,          \* the pipeline steps invoked so far, in order
    pc_pipe         \* the statement about to run, with its table and plate

filterVars == <<df, filtered, pc_filter>>
nullVars ==
    <<keys, n_samples, n_replicates, null_corr, attempts, rejected, compounds, pc_null>>
xnullVars ==
    <<modality_1_df, modality_2_df, modality_1, modality_2, x_n_samples, count,
      perturbations, null_modalities, pc_xnull>>
zcaVars == <<mean_, sphere_, zca_call>>
sphereVars == <<plate, combined, pc_sphere>>
scoreVars == <<null_dist, corr_dist, how, score, pc_score>>
pipeVars == <<fn, sphere, platelist, calls, pc_pipe>>
vars == <<filterVars, nullVars, xnullVars, zcaVars, sphereVars, scoreVars, pipeVars>>

NaN == "NaN"

\* The elements of a sequence, as a set.
Range(s) == {s[i] : i \in 1..Len(s)}

\* All sequences over S of length at most n.
SeqsUpTo(S, n) == UNION {[1..k -> S] : k \in 0..n}

-----------------------------------------------------------------------------
(* remove_negcon_empty_wells                                               *)

MaxWells == 3

ControlTypes == {"negcon", "poscon", NaN}
BroadSamples == {"BRD-A", NaN}

\* A table as the orchestration hands it over: a RangeIndex (concat with
\* ignore_index, or read_csv) and one well per row.
RowAt(i, ct, bs) ==
    [index |-> i - 1, Metadata_Well |-> i,
     Metadata_control_type |-> ct, Metadata_broad_sample |-> bs]

WellTables ==
    UNION {{[i \in 1..k |-> RowAt(i, cts[i], bss[i])] :
              cts \in [1..k -> ControlTypes], bss \in [1..k -> BroadSamples]} :
           k \in 0..MaxWells}

\* A filter that drops a row only when it is a negative control and has no
\* identifier as well.
QueryNotNegcon_OnlyEmpty(t) ==
    SelectSeq(t, LAMBDA r : r.Metadata_control_type # "negcon"
                            \/ r.Metadata_broad_sample # NaN)

\* df.query('Metadata_control_type!="negcon"'): an undefined control type is
\* not equal to "negcon", so the row stays.
QueryNotNegcon(t) ==
    SelectSeq(t, LAMBDA r : r.Metadata_control_type # "negcon")

\* .dropna(subset=['Metadata_broad_sample'])
DropnaBroadSample(t) ==
    SelectSeq(t, LAMBDA r : r.Metadata_broad_sample # NaN)

\* .reset_index(drop=True)
ResetIndex(t) == [i \in 1..Len(t) |-> [t[i] EXCEPT !.index = i - 1]]

remove_negcon_empty_wells(t) ==
    ResetIndex(DropnaBroadSample(QueryNotNegcon(t)))

FilterInit ==
    /\ df \in WellTables
    /\ filtered = <<>>
    /\ pc_filter = "call"

FilterIdle ==
    /\ df = <<>>
    /\ filtered = <<>>
    /\ pc_filter = "idle"

RemoveNegconEmptyWells ==
    /\ pc_filter = "call"
    /\ filtered' = remove_negcon_empty_wells(df)
    /\ pc_filter' = "done"
    /\ UNCHANGED df

-----------------------------------------------------------------------------
(* corr_between_non_replicates                                             *)

MaxRows == 3
MaxSamples == 2
MaxReplicates == 2
MaxAttempts == 3

KeyValues == {"cpdA", "cpdB"}

\* A count of the drawn rows in place of the distinct values among them.
NUnique_CountsRows(sample) == Len(sample)

\* len(sample[metadata_compound_name].unique())
NUnique(sample) == Cardinality(Range(sample))

\* df.loc[compounds][metadata_compound_name]: the key of each drawn row, a
\* row drawn twice appearing twice.
SampleKeys(ks, drawn) == [i \in 1..Len(drawn) |-> ks[drawn[i]]]

\* A test of distinct row positions in place of distinct identity values.
Accepted_DistinctRows(ks, drawn, k) == Cardinality(Range(drawn)) = k

\* The test of line 103.
Accepted(ks, drawn, k) == NUnique(SampleKeys(ks, drawn)) = k

\* random.choices(range(len(df)), k=n_replicates): with replacement.
Choices(n, k) == [1..k -> 1..n]

NullInit ==
    /\ keys \in SeqsUpTo(KeyValues, MaxRows)
    /\ n_samples \in 0..MaxSamples
    /\ n_replicates \in 1..MaxReplicates
    /\ null_corr = <<>>
    /\ attempts = 0
    /\ rejected = 0
    /\ compounds = <<>>
    /\ pc_null = "loop"

NullIdle ==
    /\ keys = <<>>
    /\ n_samples = 0
    /\ n_replicates = 0
    /\ null_corr = <<>>
    /\ attempts = 0
    /\ rejected = 0
    /\ compounds = <<>>
    /\ pc_null = "idle"

\* One pass of the while loop on a table with rows: draw, test, and either
\* append the statistic or go round again. A single drawn row has a 0-d
\* correlation, on which np.fill_diagonal raises ValueError.
NullDraw ==
    /\ pc_null = "loop"
    /\ Len(null_corr) < n_samples
    /\ Len(keys) > 0
    /\ attempts < MaxAttempts
    /\ \E drawn \in Choices(Len(keys), n_replicates) :
         /\ compounds' = drawn
         /\ attempts' = attempts + 1
         /\ IF Accepted(keys, drawn, n_replicates)
            THEN IF n_replicates = 1
                 THEN /\ pc_null' = "ValueError"
                      /\ UNCHANGED <<null_corr, rejected>>
                 ELSE /\ null_corr' = Append(null_corr, drawn)
                      /\ UNCHANGED <<pc_null, rejected>>
            ELSE /\ rejected' = rejected + 1
                 /\ UNCHANGED <<null_corr, pc_null>>
    /\ UNCHANGED <<keys, n_samples, n_replicates>>

\* random.choices on an empty population raises IndexError.
NullEmptyTable ==
    /\ pc_null = "loop"
    /\ Len(null_corr) < n_samples
    /\ Len(keys) = 0
    /\ pc_null' = "IndexError"
    /\ UNCHANGED <<keys, n_samples, n_replicates, null_corr, attempts, rejected, compounds>>

\* A loop that gives up after two draws.
NullReturn_RetryCap ==
    /\ pc_null = "loop"
    /\ (~(Len(null_corr) < n_samples) \/ attempts >= 2)
    /\ pc_null' = "done"
    /\ UNCHANGED <<keys, n_samples, n_replicates, null_corr, attempts, rejected, compounds>>

\* The loop condition fails: return null_corr.
NullReturn ==
    /\ pc_null = "loop"
    /\ ~(Len(null_corr) < n_samples)
    /\ pc_null' = "done"
    /\ UNCHANGED <<keys, n_samples, n_replicates, null_corr, attempts, rejected, compounds>>

-----------------------------------------------------------------------------
(* null_correlation_between_modalities                                     *)

MaxModalityRows == 2
MaxModalitySamples == 2

Modalities == {"Compounds", "CRISPR"}
Genes == {"geneA", "geneB"}
Perturbagens == {"pertX", "pertY"}

\* The tables calculate_percent_matching_Target hands over: every row of a
\* table carries that table's modality label.
ModalityTables(m) ==
    UNION {{[i \in 1..k |-> [Metadata_modality |-> m, Metadata_genes |-> gs[i],
                             Metadata_broad_sample |-> ps[i]]] :
              gs \in [1..k -> Genes], ps \in [1..k -> Perturbagens]} :
           k \in 0..MaxModalityRows}

\* np.intersect1d of the two common-key columns: the values present in both.
list_common_perturbation_groups(t1, t2) ==
    {r.Metadata_genes : r \in Range(t1)} \cap {r.Metadata_genes : r \in Range(t2)}

\* pd.concat([modality_1_df, modality_2_df], join='inner')
merged_df(t1, t2) == t1 \o t2

\* merged_df.query('Metadata_modality==@modality')
QueryModality(t, m) == SelectSeq(t, LAMBDA r : r.Metadata_modality = m)

\* t.loc[t[metadata_common] == g]
LocCommon(t, g) == SelectSeq(t, LAMBDA r : r.Metadata_genes = g)

\* Series.unique(): the distinct values in order of first appearance.
RECURSIVE Unique(_)
Unique(s) ==
    IF s = <<>> THEN <<>>
    ELSE LET front == Unique(SubSeq(s, 1, Len(s) - 1))
             last == s[Len(s)]
         IN IF last \in Range(front) THEN front ELSE Append(front, last)

PerturbationColumn(t) == [i \in 1..Len(t) |-> t[i].Metadata_broad_sample]

\* The statistics one iteration appends (lines 177-187): one per pair of a
\* modality-1 perturbation of the first drawn group and a modality-2
\* perturbation of the second, modality-1 outermost.
Statistics(t1, t2, drawn) ==
    LET p1 == Unique(PerturbationColumn(LocCommon(t1, drawn[1])))
        p2 == Unique(PerturbationColumn(LocCommon(t2, drawn[2])))
    IN [n \in 1..(Len(p1) * Len(p2)) |->
          [common_1 |-> drawn[1], common_2 |-> drawn[2],
           sample_1 |-> p1[((n - 1) \div Len(p2)) + 1],
           sample_2 |-> p2[((n - 1) % Len(p2)) + 1]]]

\* random.choices(list_common_perturbation_groups, k=2): with replacement.
ChoicesOfTwo(groups) == groups \X groups

\* The two tables carry different modality labels.
XNullInit ==
    /\ modality_1 \in Modalities
    /\ modality_2 \in Modalities \ {modality_1}
    /\ modality_1_df \in ModalityTables(modality_1)
    /\ modality_2_df \in ModalityTables(modality_2)
    /\ x_n_samples \in 0..MaxModalitySamples
    /\ count = 0
    /\ perturbations = <<>>
    /\ null_modalities = <<>>
    /\ pc_xnull = "loop"

XNullIdle ==
    /\ modality_1 = "none"
    /\ modality_2 = "none"
    /\ modality_1_df = <<>>
    /\ modality_2_df = <<>>
    /\ x_n_samples = 0
    /\ count = 0
    /\ perturbations = <<>>
    /\ null_modalities = <<>>
    /\ pc_xnull = "idle"

\* One pass of the while loop of line 172.
XNullIteration ==
    /\ pc_xnull = "loop"
    /\ count < x_n_samples
    /\ LET merged == merged_df(modality_1_df, modality_2_df)
           t1 == QueryModality(merged, modality_1)
           t2 == QueryModality(merged, modality_2)
       IN \E drawn \in ChoicesOfTwo(
                 list_common_perturbation_groups(modality_1_df, modality_2_df)) :
            /\ perturbations' = drawn
            /\ null_modalities' = null_modalities \o Statistics(t1, t2, drawn)
    /\ count' = count + 1
    /\ UNCHANGED <<modality_1_df, modality_2_df, modality_1, modality_2,
                   x_n_samples, pc_xnull>>

\* random.choices on an empty list of common groups raises IndexError.
XNullNoCommonGroup ==
    /\ pc_xnull = "loop"
    /\ count < x_n_samples
    /\ list_common_perturbation_groups(modality_1_df, modality_2_df) = {}
    /\ pc_xnull' = "IndexError"
    /\ UNCHANGED <<modality_1_df, modality_2_df, modality_1, modality_2,
                   x_n_samples, count, perturbations, null_modalities>>

XNullReturn ==
    /\ pc_xnull = "loop"
    /\ ~(count < x_n_samples)
    /\ pc_xnull' = "done"
    /\ UNCHANGED <<modality_1_df, modality_2_df, modality_1, modality_2,
                   x_n_samples, count, perturbations, null_modalities>>

-----------------------------------------------------------------------------
(* ZCA_corr                                                                *)
(* A matrix is modelled by its shape <<rows, columns>> and by whether all   *)
(* its entries are finite; the instance by which of its two fitted         *)
(* attributes exist and their dimension.                                   *)

MaxMatrixRows == 2
MaxFeatures == 3

\* An attribute the instance does not have; a stored one is <<dimension>>.
Unset == <<>>
Stored(d) == <<d>>

\* The matrices handed to transform.
Shapes == (0..MaxMatrixRows) \X (0..MaxFeatures)

\* The matrices handed to fit. A one-feature reference is left out: its
\* single singular value gives the elbow search no curve, and what line 224
\* then stores is not a square matrix.
FitShapes == {X \in Shapes : X[2] # 1}

\* check_array(X, ensure_2d=True): at least one sample and one feature, and
\* no NaN or inf among the entries.
CheckArrayOk(X, finite) == X[1] >= 1 /\ X[2] >= 1 /\ finite

\* check_is_fitted(self, "mean_") of line 234 passes.
CheckIsFitted(mean) == mean # Unset

\* numpy broadcasting of an (n, k) matrix with a (d,) vector: whether the
\* shapes broadcast, and the columns of the result.
Broadcasts(k, d) == k = d \/ k = 1 \/ d = 1
BroadcastColumns(k, d) == IF k = 1 THEN d ELSE k

\* How transform ends on instance state (mean, sph) and matrix X:
\* lines 234-236, the operands of np.dot evaluated left to right.
TransformOutcome(mean, sph, X) ==
    IF ~CheckIsFitted(mean)
    THEN [outcome |-> "NotFittedError", shape |-> <<>>]
    ELSE IF ~Broadcasts(X[2], mean[1])
    THEN [outcome |-> "ValueError", shape |-> <<>>]
    ELSE IF sph = Unset
    THEN [outcome |-> "AttributeError", shape |-> <<>>]
    ELSE IF BroadcastColumns(X[2], mean[1]) # sph[1]
    THEN [outcome |-> "ValueError", shape |-> <<>>]
    ELSE [outcome |-> "return", shape |-> <<X[1], sph[1]>>]

ZcaInit ==
    /\ mean_ = Unset
    /\ sphere_ = Unset
    /\ zca_call = [op |-> "__init__", X |-> <<>>, finite |-> TRUE, outcome |-> "return", shape |-> <<>>]

ZcaIdle ==
    /\ mean_ = Unset
    /\ sphere_ = Unset
    /\ zca_call = [op |-> "idle", X |-> <<>>, finite |-> TRUE, outcome |-> "idle", shape |-> <<>>]

\* fit rejects the matrix in check_array (no sample, no feature, or an entry
\* that is NaN or inf), before anything is stored.
FitRejected ==
    /\ \E X \in FitShapes, finite \in BOOLEAN :
         /\ ~CheckArrayOk(X, finite)
         /\ zca_call' = [op |-> "fit", X |-> X, finite |-> finite,
                         outcome |-> "ValueError", shape |-> <<>>]
    /\ UNCHANGED <<mean_, sphere_>>

\* fit stores mean_ (line 213) and then raises before line 224: the SVD does
\* not converge, or no elbow is found and the whitening product fails.
FitFailsAfterMean ==
    /\ \E X \in FitShapes, finite \in BOOLEAN :
         /\ CheckArrayOk(X, finite)
         /\ mean_' = Stored(X[2])
         /\ zca_call' = [op |-> "fit", X |-> X, finite |-> finite,
                         outcome |-> "raise", shape |-> <<>>]
    /\ UNCHANGED sphere_

\* fit runs to its return: mean_ and sphere_ stored.
FitCompletes ==
    /\ \E X \in FitShapes, finite \in BOOLEAN :
         /\ CheckArrayOk(X, finite)
         /\ mean_' = Stored(X[2])
         /\ sphere_' = Stored(X[2])
         /\ zca_call' = [op |-> "fit", X |-> X, finite |-> finite,
                         outcome |-> "return", shape |-> <<>>]

\* transform: as_float_array of line 235 validates nothing, so entries that
\* are not finite change no outcome.
Transform ==
    /\ \E X \in Shapes, finite \in BOOLEAN :
         LET r == TransformOutcome(mean_, sphere_, X)
         IN zca_call' = [op |-> "transform", X |-> X, finite |-> finite,
                         outcome |-> r.outcome, shape |-> r.shape]
    /\ UNCHANGED <<mean_, sphere_>>

-----------------------------------------------------------------------------
(* get_metacols, get_featurecols, sphere_plate_zca_corr                    *)
(* A column name is the sequence of its characters.                        *)

MaxPlateRows == 3

Str_Metadata == <<"M", "e", "t", "a", "d", "a", "t", "a">>
Str_Metadata_ == Str_Metadata \o <<"_">>

Col_control_type == Str_Metadata_ \o <<"c", "o", "n", "t", "r", "o", "l", "_", "t", "y", "p", "e">>
Col_Well == Str_Metadata_ \o <<"W", "e", "l", "l">>
Col_MetadataPlate == Str_Metadata \o <<"P", "l", "a", "t", "e">>
Col_Cells_Area == <<"C", "e", "l", "l", "s", "_", "A", "r", "e", "a">>
Col_Nuclei_Area == <<"N", "u", "c", "l", "e", "i", "_", "A", "r", "e", "a">>

\* str.startswith
StartsWith(name, prefix) ==
    /\ Len(name) >= Len(prefix)
    /\ SubSeq(name, 1, Len(prefix)) = prefix

\* get_metacols(df), on the columns of df
get_metacols(columns) ==
    SelectSeq(columns, LAMBDA c : StartsWith(c, Str_Metadata_))

\* get_featurecols(df), on the columns of df
get_featurecols(columns) ==
    SelectSeq(columns, LAMBDA c : ~StartsWith(c, Str_Metadata))

\* The columns a plate may have, in file order; the control type is read by
\* name on line 252 and is always there.
ColumnOrder ==
    <<Col_Cells_Area, Col_control_type, Col_MetadataPlate, Col_Nuclei_Area, Col_Well>>

ColumnChoices ==
    {SelectSeq(ColumnOrder, LAMBDA c : c \in S \cup {Col_control_type}) :
       S \in SUBSET Range(ColumnOrder)}

\* The value the input holds at a row and column, and the sphered value
\* that replaces it.
RawValue(i, c) == [row |-> i, column |-> c, sphered |-> FALSE]
SpheredValue(i, c) == [row |-> i, column |-> c, sphered |-> TRUE]

Plates ==
    {[index |-> [i \in 1..Len(ct) |-> i - 1], columns |-> cols, control_type |-> ct] :
       cols \in {c \in ColumnChoices : Len(get_featurecols(c)) # 1},
       ct \in SeqsUpTo({"negcon", "trt"}, MaxPlateRows)}

NoTable == [index |-> <<>>, columns |-> <<>>, cell |-> <<>>]

\* Shape of get_featuredata(plate.loc[plate.Metadata_control_type=="negcon"])
dmso_vals(p) ==
    <<Len(SelectSeq(p.control_type, LAMBDA t : t = "negcon")),
      Len(get_featurecols(p.columns))>>

\* Shape of get_featuredata(plate)
all_vals(p) == <<Len(p.control_type), Len(get_featurecols(p.columns))>>

\* Lines 259-263: the sphered features under the feature column names,
\* then the metadata columns of the input, on the input's index.
Combine(p) ==
    LET fc == get_featurecols(p.columns)
        mc == get_metacols(p.columns)
    IN [index |-> p.index,
        columns |-> fc \o mc,
        cell |-> [i \in 1..Len(p.index), c \in Range(fc) \cup Range(mc) |->
                    IF c \in Range(fc) THEN SpheredValue(i, c) ELSE RawValue(i, c)]]

\* combined.shape == plate.shape
SameShape(t, p) ==
    /\ Len(t.index) = Len(p.index)
    /\ Len(t.columns) = Len(p.columns)

SphereInit ==
    /\ plate \in Plates
    /\ combined = NoTable
    /\ pc_sphere = "call"

SphereIdle ==
    /\ plate = NoTable
    /\ combined = NoTable
    /\ pc_sphere = "idle"

\* sphereer.fit(dmso_vals) raises: no control rows, no feature columns or
\* a control value that is NaN or inf (check_array), or a failure inside fit
\* on an accepted matrix.
SphereFitRaises ==
    /\ pc_sphere = "call"
    /\ pc_sphere' = "FitError"
    /\ UNCHANGED <<plate, combined>>

\* fit succeeds; transform, reassembly and the assertion of line 264.
SpherePlate ==
    /\ pc_sphere = "call"
    /\ CheckArrayOk(dmso_vals(plate), TRUE)
    /\ LET d == Stored(dmso_vals(plate)[2])
           r == TransformOutcome(d, d, all_vals(plate))
       IN IF r.outcome # "return"
          THEN /\ pc_sphere' = r.outcome
               /\ UNCHANGED combined
          ELSE IF SameShape(Combine(plate), plate)
          THEN /\ combined' = Combine(plate)
               /\ pc_sphere' = "done"
          ELSE /\ pc_sphere' = "AssertionError"
               /\ UNCHANGED combined
    /\ UNCHANGED plate

-----------------------------------------------------------------------------
(* percent_score                                                           *)
(* A float is <<v>> for the integer v, or FNaN. A percentile is carried    *)
(* multiplied by 100, which keeps the linear interpolation exact.          *)

MaxNullLen == 3
MaxCorrLen == 2
MaxCorr == 2

FNaN == <<>>
IsNaN(x) == x = FNaN

Floats == {<<v>> : v \in 0..MaxCorr} \cup {FNaN}

RECURSIVE Insert(_, _)
Insert(s, x) ==
    IF s = <<>> THEN <<x>>
    ELSE IF x <= s[1] THEN <<x>> \o s
    ELSE <<s[1]>> \o Insert(Tail(s), x)

RECURSIVE Sorted(_)
Sorted(s) == IF s = <<>> THEN <<>> ELSE Insert(Sorted(Tail(s)), s[1])

\* The values of a distribution that are not NaN.
Defined(dist) ==
    LET kept == SelectSeq(dist, LAMBDA x : ~IsNaN(x))
    IN [i \in 1..Len(kept) |-> kept[i][1]]

\* The percentile taken from the other end of the distribution.
NanPercentile_OtherTail(dist, q) ==
    LET v == Sorted(Defined(dist))
        m == Len(v)
        pos == (100 - q) * (m - 1)
        lo == pos \div 100
        hi == IF lo + 1 < m THEN lo + 1 ELSE lo
    IN IF m = 0 THEN FNaN
       ELSE <<100 * v[lo + 1] + (pos - 100 * lo) * (v[hi + 1] - v[lo + 1])>>

\* 100 * np.nanpercentile(dist, q): linear interpolation between the two
\* order statistics around position q/100 * (m - 1); NaN when nothing is
\* defined.
NanPercentile(dist, q) ==
    LET v == Sorted(Defined(dist))
        m == Len(v)
        pos == q * (m - 1)
        lo == pos \div 100
        hi == IF lo + 1 < m THEN lo + 1 ELSE lo
    IN IF m = 0 THEN FNaN
       ELSE <<100 * v[lo + 1] + (pos - 100 * lo) * (v[hi + 1] - v[lo + 1])>>

perc_95 == 95
perc_5 == 5

\* corr_dist > threshold and corr_dist < threshold, elementwise: a
\* comparison with NaN on either side is False.
Above(x, threshold) == ~IsNaN(x) /\ ~IsNaN(threshold) /\ 100 * x[1] > threshold[1]
Below(x, threshold) == ~IsNaN(x) /\ ~IsNaN(threshold) /\ 100 * x[1] < threshold[1]

\* sum of a boolean array
CountAbove(dist, threshold) ==
    Len(SelectSeq(dist, LAMBDA x : Above(x, threshold)))
CountBelow(dist, threshold) ==
    Len(SelectSeq(dist, LAMBDA x : Below(x, threshold)))

\* np.mean of the boolean array as the fraction num/den; den = 0 is the
\* mean of an empty array, NaN.
percent_score(nd, cd, h) ==
    IF h = "right"
    THEN [num |-> CountAbove(cd, NanPercentile(nd, perc_95)), den |-> Len(cd),
          thresholds |-> <<NanPercentile(nd, perc_95)>>]
    ELSE IF h = "left"
    THEN [num |-> CountBelow(cd, NanPercentile(nd, perc_5)), den |-> Len(cd),
          thresholds |-> <<NanPercentile(nd, perc_5)>>]
    ELSE [num |-> CountAbove(cd, NanPercentile(nd, perc_95))
                    + CountBelow(cd, NanPercentile(nd, perc_5)),
          den |-> Len(cd),
          thresholds |-> <<NanPercentile(nd, perc_95), NanPercentile(nd, perc_5)>>]

NoScore == [num |-> 0, den |-> 0, thresholds |-> <<>>]

ScoreInit ==
    /\ null_dist \in SeqsUpTo(Floats, MaxNullLen)
    /\ corr_dist \in SeqsUpTo(Floats, MaxCorrLen)
    /\ how \in {"right", "left", "both"}
    /\ score = NoScore
    /\ pc_score = "call"

ScoreIdle ==
    /\ null_dist = <<>>
    /\ corr_dist = <<>>
    /\ how = "none"
    /\ score = NoScore
    /\ pc_score = "idle"

PercentScore ==
    /\ pc_score = "call"
    /\ score' = percent_score(null_dist, corr_dist, how)
    /\ pc_score' = "done"
    /\ UNCHANGED <<null_dist, corr_dist, how>>

-----------------------------------------------------------------------------
(* calculate_percent_replicating_Target, calculate_percent_matching_Target *)
(* The data is left out; the state is the position in the function and the *)
(* record of the steps it has invoked.                                     *)

MaxPlates == 2

SphereValues == {"None", "plate", "batch", "well"}

\* Tables the function builds: one, or one per modality.
Tables(f) == IF f = "replicating" THEN 1 ELSE 2

\* if sphere == 'plate' (lines 313, 347, 363)
SpherePlateSelected(s) == s = "plate"

\* Batch sphering whenever any sphering is asked for.
SphereBatchSelected_AnySphering(s) == s # "None"

\* if sphere == 'batch' (lines 320, 355, 371)
SphereBatchSelected(s) == s = "batch"

At(stage, t, i) == [at |-> stage, table |-> t, plate |-> i]
Call(op, t, i) == [op |-> op, table |-> t, plate |-> i]

\* After the plate body for plate i of table t: the for loop goes on.
NextPlate(t, i) == At("for", t, i + 1)

\* After the concatenation of table t.
AfterConcat(s, t) ==
    IF SphereBatchSelected(s) THEN At("sphere_batch", t, 0) ELSE At("filter", t, 0)

\* After the filter of table t.
AfterFilter(f, t) ==
    IF t < Tables(f) THEN At("for", t + 1, 1) ELSE At("observed", 0, 0)

PipeInit ==
    /\ fn \in {"replicating", "matching"}
    /\ sphere \in SphereValues
    /\ platelist \in [1..Tables(fn) -> 0..MaxPlates]
    /\ calls = <<>>
    /\ pc_pipe = At("for", 1, 1)

PipeIdle ==
    /\ fn = "none"
    /\ sphere = "None"
    /\ platelist = <<>>
    /\ calls = <<>>
    /\ pc_pipe = At("idle", 0, 0)

\* for plate in platelist: pd.read_csv
PipeReadCsv ==
    /\ pc_pipe.at = "for"
    /\ pc_pipe.plate <= platelist[pc_pipe.table]
    /\ calls' = Append(calls, Call("read_csv", pc_pipe.table, pc_pipe.plate))
    /\ pc_pipe' = IF SpherePlateSelected(sphere)
                  THEN At("sphere_plate", pc_pipe.table, pc_pipe.plate)
                  ELSE NextPlate(pc_pipe.table, pc_pipe.plate)
    /\ UNCHANGED <<fn, sphere, platelist>>

\* plate_df = sphere_plate_zca_corr(plate_df)
PipeSpherePlate ==
    /\ pc_pipe.at = "sphere_plate"
    /\ calls' = Append(calls, Call("sphere_plate", pc_pipe.table, pc_pipe.plate))
    /\ pc_pipe' = NextPlate(pc_pipe.table, pc_pipe.plate)
    /\ UNCHANGED <<fn, sphere, platelist>>

\* sphere_plate_zca_corr raises, on a plate or on a concatenated table.
PipeSphereRaises ==
    /\ pc_pipe.at \in {"sphere_plate", "sphere_batch"}
    /\ calls' = Append(calls, Call(pc_pipe.at, pc_pipe.table, pc_pipe.plate))
    /\ pc_pipe' = At("raised", pc_pipe.table, pc_pipe.plate)
    /\ UNCHANGED <<fn, sphere, platelist>>

\* pd.concat(data_dict, join='inner', ignore_index=True), once the loop is
\* over; it raises ValueError on an empty dict.
PipeConcat ==
    /\ pc_pipe.at = "for"
    /\ pc_pipe.plate > platelist[pc_pipe.table]
    /\ calls' = Append(calls, Call("concat", pc_pipe.table, 0))
    /\ pc_pipe' = IF platelist[pc_pipe.table] = 0
                  THEN At("raised", pc_pipe.table, 0)
                  ELSE AfterConcat(sphere, pc_pipe.table)
    /\ UNCHANGED <<fn, sphere, platelist>>

\* data_df = sphere_plate_zca_corr(data_df)
PipeSphereBatch ==
    /\ pc_pipe.at = "sphere_batch"
    /\ calls' = Append(calls, Call("sphere_batch", pc_pipe.table, 0))
    /\ pc_pipe' = At("filter", pc_pipe.table, 0)
    /\ UNCHANGED <<fn, sphere, platelist>>

\* data_df = remove_negcon_empty_wells(data_df)
PipeFilter ==
    /\ pc_pipe.at = "filter"
    /\ calls' = Append(calls, Call("filter", pc_pipe.table, 0))
    /\ pc_pipe' = AfterFilter(fn, pc_pipe.table)
    /\ UNCHANGED <<fn, sphere, platelist>>

\* corr_between_replicates / correlation_between_modalities
PipeObserved ==
    /\ pc_pipe.at = "observed"
    /\ calls' = Append(calls, Call("observed", 0, 0))
    /\ pc_pipe' = At("null", 0, 0)
    /\ UNCHANGED <<fn, sphere, platelist>>

\* corr_between_non_replicates / null_correlation_between_modalities
\* returns, or raises (nothing left to draw from after the filter).
PipeNull ==
    /\ pc_pipe.at = "null"
    /\ calls' = Append(calls, Call("null", 0, 0))
    /\ \E returns \in BOOLEAN :
         pc_pipe' = IF returns THEN At("percent_score", 0, 0) ELSE At("raised", 0, 0)
    /\ UNCHANGED <<fn, sphere, platelist>>

\* percent_score, and return
PipePercentScore ==
    /\ pc_pipe.at = "percent_score"
    /\ calls' = Append(calls, Call("percent_score", 0, 0))
    /\ pc_pipe' = At("done", 0, 0)
    /\ UNCHANGED <<fn, sphere, platelist>>

-----------------------------------------------------------------------------
(* Specifications                                                          *)
(* One per function: the function's own variables move, the rest are idle. *)

FilterRest ==
    /\ NullIdle
    /\ XNullIdle
    /\ ZcaIdle
    /\ SphereIdle
    /\ ScoreIdle
    /\ PipeIdle
FilterRestVars ==
    <<nullVars, xnullVars, zcaVars, sphereVars, scoreVars, pipeVars>>
SpecFilterInit == FilterInit /\ FilterRest
SpecFilterNext ==
    \/ RemoveNegconEmptyWells /\ UNCHANGED FilterRestVars
SpecFilter == SpecFilterInit /\ [][SpecFilterNext]_vars

NullRest ==
    /\ FilterIdle
    /\ XNullIdle
    /\ ZcaIdle
    /\ SphereIdle
    /\ ScoreIdle
    /\ PipeIdle
NullRestVars ==
    <<filterVars, xnullVars, zcaVars, sphereVars, scoreVars, pipeVars>>
SpecNullInit == NullInit /\ NullRest
SpecNullNext ==
    \/ NullDraw /\ UNCHANGED NullRestVars
    \/ NullEmptyTable /\ UNCHANGED NullRestVars
    \/ NullReturn /\ UNCHANGED NullRestVars
SpecNull == SpecNullInit /\ [][SpecNullNext]_vars

XNullRest ==
    /\ FilterIdle
    /\ NullIdle
    /\ ZcaIdle
    /\ SphereIdle
    /\ ScoreIdle
    /\ PipeIdle
XNullRestVars ==
    <<filterVars, nullVars, zcaVars, sphereVars, scoreVars, pipeVars>>
SpecXNullInit == XNullInit /\ XNullRest
SpecXNullNext ==
    \/ XNullIteration /\ UNCHANGED XNullRestVars
    \/ XNullNoCommonGroup /\ UNCHANGED XNullRestVars
    \/ XNullReturn /\ UNCHANGED XNullRestVars
SpecXNull == SpecXNullInit /\ [][SpecXNullNext]_vars

ZcaRest ==
    /\ FilterIdle
    /\ NullIdle
    /\ XNullIdle
    /\ SphereIdle
    /\ ScoreIdle
    /\ PipeIdle
ZcaRestVars ==
    <<filterVars, nullVars, xnullVars, sphereVars, scoreVars, pipeVars>>
SpecZcaInit == ZcaInit /\ ZcaRest
SpecZcaNext ==
    \/ FitRejected /\ UNCHANGED ZcaRestVars
    \/ FitFailsAfterMean /\ UNCHANGED ZcaRestVars
    \/ FitCompletes /\ UNCHANGED ZcaRestVars
    \/ Transform /\ UNCHANGED ZcaRestVars
SpecZca == SpecZcaInit /\ [][SpecZcaNext]_vars

SphereRest ==
    /\ FilterIdle
    /\ NullIdle
    /\ XNullIdle
    /\ ZcaIdle
    /\ ScoreIdle
    /\ PipeIdle
SphereRestVars ==
    <<filterVars, nullVars, xnullVars, zcaVars, scoreVars, pipeVars>>
SpecSphereInit == SphereInit /\ SphereRest
SpecSphereNext ==
    \/ SphereFitRaises /\ UNCHANGED SphereRestVars
    \/ SpherePlate /\ UNCHANGED SphereRestVars
SpecSphere == SpecSphereInit /\ [][SpecSphereNext]_vars

ScoreRest ==
    /\ FilterIdle
    /\ NullIdle
    /\ XNullIdle
    /\ ZcaIdle
    /\ SphereIdle
    /\ PipeIdle
ScoreRestVars ==
    <<filterVars, nullVars, xnullVars, zcaVars, sphereVars, pipeVars>>
SpecScoreInit == ScoreInit /\ ScoreRest
SpecScoreNext ==
    \/ PercentScore /\ UNCHANGED ScoreRestVars
SpecScore == SpecScoreInit /\ [][SpecScoreNext]_vars

PipeRest ==
    /\ FilterIdle
    /\ NullIdle
    /\ XNullIdle
    /\ ZcaIdle
    /\ SphereIdle
    /\ ScoreIdle
PipeRestVars ==
    <<filterVars, nullVars, xnullVars, zcaVars, sphereVars, scoreVars>>
SpecPipeInit == PipeInit /\ PipeRest
SpecPipeNext ==
    \/ PipeReadCsv /\ UNCHANGED PipeRestVars
    \/ PipeSpherePlate /\ UNCHANGED PipeRestVars
    \/ PipeSphereRaises /\ UNCHANGED PipeRestVars
    \/ PipeConcat /\ UNCHANGED PipeRestVars
    \/ PipeSphereBatch /\ UNCHANGED PipeRestVars
    \/ PipeFilter /\ UNCHANGED PipeRestVars
    \/ PipeObserved /\ UNCHANGED PipeRestVars
    \/ PipeNull /\ UNCHANGED PipeRestVars
    \/ PipePercentScore /\ UNCHANGED PipeRestVars
SpecPipe == SpecPipeInit /\ [][SpecPipeNext]_vars

-----------------------------------------------------------------------------
(* Properties                                                              *)

Wells(t) == [i \in 1..Len(t) |-> t[i].Metadata_Well]

IsNegcon(r) == r.Metadata_control_type = "negcon"
LacksIdentifier(r) == r.Metadata_broad_sample = NaN

\* C1, as stated: remove_negcon_empty_wells removes exactly the rows that
\* are negative controls and also lack a perturbation identifier; every
\* other row is kept, in its original order.
C1_RemovesOnlyEmptyNegcon ==
    pc_filter = "done" =>
        Wells(filtered) =
            Wells(SelectSeq(df, LAMBDA r : ~(IsNegcon(r) /\ LacksIdentifier(r))))

\* C1, amended: remove_negcon_empty_wells removes every row that is a
\* negative control and every row that lacks a perturbation identifier; a
\* row is kept exactly when it is neither, the kept rows stay in their
\* original order with their values, and the index is renumbered from 0.
C1_RemovesNegconOrEmpty ==
    pc_filter = "done" =>
        /\ \A i \in 1..Len(df) :
             (\E j \in 1..Len(filtered) :
                 filtered[j].Metadata_Well = df[i].Metadata_Well)
             <=> (~IsNegcon(df[i]) /\ ~LacksIdentifier(df[i]))
        /\ \A j, k \in 1..Len(filtered) :
             j < k => filtered[j].Metadata_Well < filtered[k].Metadata_Well
        /\ \A j \in 1..Len(filtered) :
             /\ filtered[j].Metadata_Well \in 1..Len(df)
             /\ filtered[j] = [df[filtered[j].Metadata_Well] EXCEPT !.index = j - 1]

\* C1, reached: a call that drops a negative control carrying an identifier
\* and a treated well without one, and keeps a third well.
C1_Witness ==
    /\ pc_filter = "done"
    /\ Len(filtered) >= 1
    /\ \E i \in 1..Len(df) : IsNegcon(df[i]) /\ ~LacksIdentifier(df[i])
    /\ \E i \in 1..Len(df) : ~IsNegcon(df[i]) /\ LacksIdentifier(df[i])

\* The identity values of the rows of one accepted draw are pairwise distinct.
PairwiseDistinctKeys(drawn) ==
    \A a, b \in 1..Len(drawn) : a # b => keys[drawn[a]] # keys[drawn[b]]

\* C2: whenever corr_between_non_replicates returns, the null distribution
\* has exactly n_samples entries; every entry comes from a draw of
\* n_replicates rows with pairwise distinct identity values; and every draw
\* either contributed one entry, was rejected, or raised.
C2_NullLengthAndDistinctKeys ==
    /\ pc_null = "done" => Len(null_corr) = n_samples
    /\ \A e \in 1..Len(null_corr) :
         /\ Len(null_corr[e]) = n_replicates
         /\ PairwiseDistinctKeys(null_corr[e])
    /\ pc_null \in {"loop", "done"} => attempts = Len(null_corr) + rejected

\* C2, reached: a return with two entries after at least one rejected draw,
\* on a table where two rows share an identity value.
C2_Witness ==
    /\ pc_null = "done"
    /\ n_samples >= 2
    /\ rejected >= 1
    /\ \E i, j \in 1..Len(keys) : i # j /\ keys[i] = keys[j]

AllKeysDistinct == \A i, j \in 1..Len(keys) : i # j => keys[i] # keys[j]

RepeatsRow(drawn) == \E a, b \in 1..Len(drawn) : a # b /\ drawn[a] = drawn[b]

\* C3, as stated: on a table whose rows all have distinct identity values
\* no draw is ever rejected, so the loop returns after exactly n_samples
\* draws.
C3_NoDrawRejected ==
    AllKeysDistinct =>
        /\ rejected = 0
        /\ pc_null = "done" => attempts = n_samples

\* C3, amended: on a table whose rows all have distinct identity values a
\* draw is rejected exactly when it picks the same row more than once (the
\* rows are drawn with replacement); the loop returns after n_samples
\* accepted draws plus the rejected ones.
C3_RejectedOnlyOnRepeatedRow ==
    /\ [](AllKeysDistinct /\ pc_null = "done" => attempts = n_samples + rejected)
    /\ [][(AllKeysDistinct /\ attempts' = attempts + 1)
            => ((rejected' = rejected + 1) <=> RepeatsRow(compounds'))]_vars

\* C3, reached: a return on an all-distinct table after a rejected draw.
C3_Witness ==
    /\ AllKeysDistinct
    /\ Len(keys) >= 2
    /\ n_samples >= 1
    /\ rejected >= 1
    /\ pc_null = "done"

DistinctKeyCount == Cardinality({keys[i] : i \in 1..Len(keys)})

\* C4, as stated: with n_samples >= 1 and fewer distinct identity values
\* than n_replicates the call never returns, accepts no draw and signals no
\* error.
C4_NeverReturnsNorRaises ==
    (n_samples >= 1 /\ n_replicates >= 1 /\ DistinctKeyCount < n_replicates) =>
        /\ pc_null = "loop"
        /\ null_corr = <<>>

\* C4, amended: with n_samples >= 1 on a table that has at least one row
\* and fewer distinct identity values than n_replicates, the call never
\* returns and never raises: it stays in the loop, every draw is rejected
\* and no entry is accepted. (On an empty table the first draw raises
\* IndexError.)
C4_NonEmptyTableLoopsForever ==
    (n_samples >= 1 /\ Len(keys) >= 1 /\ DistinctKeyCount < n_replicates) =>
        /\ pc_null = "loop"
        /\ null_corr = <<>>
        /\ rejected = attempts

\* C4, reached: three draws made and rejected on a two-row table with one
\* identity value.
C4_Witness ==
    /\ n_samples >= 1
    /\ Len(keys) >= 2
    /\ DistinctKeyCount < n_replicates
    /\ attempts >= 3
    /\ rejected = attempts

\* C5: in every iteration of null_correlation_between_modalities the two
\* common-key values drawn are distinct, and no statistic of the null
\* distribution pairs rows that share a common-key value.
C5_DistinctCommonKeys ==
    /\ perturbations # <<>> => perturbations[1] # perturbations[2]
    /\ \A e \in 1..Len(null_modalities) :
         null_modalities[e].common_1 # null_modalities[e].common_2

\* C6: a transform call on an instance on which no fit call has completed
\* fails with the "not fitted" error.
C6_TransformBeforeFitNotFitted ==
    (zca_call.op = "transform" /\ sphere_ = Unset) =>
        zca_call.outcome = "NotFittedError"

InUnitInterval(r) == r.den > 0 /\ 0 <= r.num /\ r.num <= r.den

\* What each mode returns on the inputs of the call.
ScoreStatement ==
    LET right == percent_score(null_dist, corr_dist, "right")
        left == percent_score(null_dist, corr_dist, "left")
        n95 == Cardinality({i \in 1..Len(corr_dist) :
                   Above(corr_dist[i], NanPercentile(null_dist, perc_95))})
        n5 == Cardinality({i \in 1..Len(corr_dist) :
                   Below(corr_dist[i], NanPercentile(null_dist, perc_5))})
    IN /\ score.den = Len(corr_dist)
       /\ how = "right" => score.num = n95
       /\ how = "left" => score.num = n5
       /\ how = "both" => score.num = right.num + left.num /\ score.num = n95 + n5

\* C9, as stated: percent_score returns a score in [0,1] in each mode:
\* right the fraction strictly above the 95th percentile of the null, left
\* the fraction strictly below the 5th, both their sum, which is at most 1.
C9_ScoreInUnitInterval ==
    pc_score = "done" => InUnitInterval(score) /\ ScoreStatement

\* C9, amended: on a non-empty observed distribution percent_score returns
\* a score in [0,1] in each mode: right the fraction strictly above the 95th
\* percentile of the null, left the fraction strictly below the 5th, both
\* their sum, which is at most 1. (On an empty one the score is NaN.)
C9_NonEmptyScoreInUnitInterval ==
    (pc_score = "done" /\ corr_dist # <<>>) =>
        InUnitInterval(score) /\ ScoreStatement

\* C9, reached: mode both with one observed value above the upper threshold
\* and one below the lower: the two fractions add up to 1.
C9_Witness ==
    /\ pc_score = "done"
    /\ how = "both"
    /\ Len(corr_dist) = 2
    /\ score.num = 2
    /\ percent_score(null_dist, corr_dist, "right").num = 1
    /\ percent_score(null_dist, corr_dist, "left").num = 1

Positions(op, t) == {a \in 1..Len(calls) : calls[a].op = op /\ calls[a].table = t}
PositionsOf(op) == {a \in 1..Len(calls) : calls[a].op = op}
Engines == {"observed", "null"}

\* The sphere parameter decides what is sphered: with 'plate' each loaded
\* plate exactly once, right after it is read and before its table is
\* concatenated; with 'batch' each concatenated table exactly once; no plate
\* unless 'plate', no concatenated table unless 'batch'.
SpheringBySphereParameter ==
    /\ sphere # "plate" => PositionsOf("sphere_plate") = {}
    /\ sphere # "batch" => PositionsOf("sphere_batch") = {}
    /\ \A a \in PositionsOf("sphere_plate") :
         /\ a > 1
         /\ calls[a - 1] = Call("read_csv", calls[a].table, calls[a].plate)
         /\ \A b \in Positions("concat", calls[a].table) : a < b
         /\ \A b \in PositionsOf("sphere_plate") :
              (calls[b].table = calls[a].table /\ calls[b].plate = calls[a].plate)
                 => a = b
    /\ \A a \in PositionsOf("sphere_batch") :
         /\ a > 1
         /\ calls[a - 1] = Call("concat", calls[a].table, 0)
         /\ \A b \in Positions("sphere_batch", calls[a].table) : a = b

\* Each table is filtered at most once, and by then all the sphering the
\* parameter asks for on that table has been done.
FilterAfterOwnSphering ==
    \A a \in PositionsOf("filter") :
       /\ \A b \in Positions("sphere_plate", calls[a].table) : b < a
       /\ \A b \in Positions("sphere_batch", calls[a].table) : b < a
       /\ \A b \in Positions("filter", calls[a].table) : a = b
       /\ sphere = "batch" => Positions("sphere_batch", calls[a].table) # {}
       /\ sphere = "plate" =>
            \A i \in 1..platelist[calls[a].table] :
               \E b \in Positions("sphere_plate", calls[a].table) : calls[b].plate = i

\* No sphering, of any table, comes after a filter.
FilterAfterAnySphering ==
    \A a \in PositionsOf("filter") :
       \A b \in PositionsOf("sphere_plate") \cup PositionsOf("sphere_batch") : b < a

\* Both engines run after the filter of every table, and percent_score runs
\* last, after both engines.
EnginesThenPercentScore ==
    /\ \A a \in 1..Len(calls) :
         calls[a].op \in Engines =>
            \A t \in 1..Tables(fn) :
               \E b \in Positions("filter", t) : b < a
    /\ \A a \in PositionsOf("percent_score") :
         /\ a = Len(calls)
         /\ \E b \in PositionsOf("observed") : b < a
         /\ \E b \in PositionsOf("null") : b < a
    /\ pc_pipe.at = "done" => PositionsOf("percent_score") # {}

\* C10 as stated: plates or concatenated tables are sphered as the sphere
\* parameter says, the filter runs after any sphering, of whichever table,
\* and before the engines, and percent_score runs last. (Fails:
\* calculate_percent_matching_Target filters the first table at line 357,
\* before it spheres the plates or the concatenation of the second at
\* lines 364 and 372.)
C10_FilterAfterAnySphering ==
    /\ SpheringBySphereParameter
    /\ FilterAfterOwnSphering
    /\ FilterAfterAnySphering
    /\ EnginesThenPercentScore

\* C10, amended: plates or concatenated tables are sphered as the sphere
\* parameter says; each table's filter runs after all the sphering of that
\* same table (in the matching function the first table is filtered before
\* the second is loaded and sphered); both engines run after the filter of
\* every table, and percent_score runs last.
C10_StepOrder ==
    /\ SpheringBySphereParameter
    /\ FilterAfterOwnSphering
    /\ EnginesThenPercentScore

\* C10, reached: the matching pipeline run to its end with plate-level
\* sphering of two plates per table, the second table's plates sphered after
\* the filter of the first.
C10_Witness ==
    /\ pc_pipe.at = "done"
    /\ fn = "matching"
    /\ sphere = "plate"
    /\ \A t \in 1..2 : platelist[t] = 2
    /\ Cardinality(PositionsOf("sphere_plate")) = 4
    /\ \E a \in Positions("filter", 1) :
         \A b \in Positions("sphere_plate", 2) : a < b

====
